---- MODULE Spec2Model ----
(***************************************************************************)
(* Event-state and alert-resolution engine of                              *)
(* selfdrive/controls/lib/events.py: class Events (add, clear, any,        *)
(* create_alerts, add_from_msg, to_msg), class Alert with its shorthand    *)
(* subclasses, the alert callback functions and the EVENTS catalog.        *)
(*                                                                         *)
(* Units.  Wall-clock times are floats in seconds in the source; here they *)
(* are integers in milliseconds (DT_CTRL = 0.01 s = 10 ms, 0.5 s = 500).   *)
(* Every time the catalog uses is a whole number of milliseconds, and for  *)
(* multiples of 10 ms up to 400 s the float test DT_CTRL * n >= d agrees   *)
(* with the integer test 10 * n >= d (checked by enumeration in Python).   *)
(*                                                                         *)
(* Texts.  A text is a triple <<kind, a, b>>: NoText is the empty string,  *)
(* tr(n) is line n of the language file, and a formatted text carries the  *)
(* values that were formatted into it.                                     *)
(*                                                                         *)
(* get_display_speed (source lines 205-208) is written with non-Python     *)
(* keywords in the source; it is modelled as the conditional expression    *)
(* the surrounding code expects (metric ? km/h : mph).                     *)
(***************************************************************************)
EXTENDS Integers, Sequences, FiniteSets, TLC

----------------------------------------------------------------------------
(* Priority (IntEnum) *)
LOWEST == 0
LOWER == 1
LOW == 2
MID == 3
HIGH == 4
HIGHEST == 5

(* class ET *)
ENABLE == "enable"
PRE_ENABLE == "preEnable"
NO_ENTRY == "noEntry"
WARNING == "warning"
USER_DISABLE == "userDisable"
SOFT_DISABLE == "softDisable"
IMMEDIATE_DISABLE == "immediateDisable"
PERMANENT == "permanent"

(* common.realtime.DT_CTRL: the control-cycle period, 0.01 s, in ms *)
DT_CTRL == 10

(* Python's None *)
None == "None"

----------------------------------------------------------------------------
(* Texts *)
NoText == <<"", 0, 0>>

tr(line_num) == <<"tr", line_num, 0>>

(* len(text) as far as the code tests it: zero or not *)
TextLen(t) == IF t[1] = "" THEN 0 ELSE 1

----------------------------------------------------------------------------
(* class Alert and its shorthand subclasses *)

(* mutant: the creation delay stored as a count of cycles *)

Alert_delay_in_cycles(alert_text_1, alert_text_2, alert_status, alert_size, priority, visual_alert, audible_alert, duration, alert_rate, creation_delay) ==
  [alert_text_1   |-> alert_text_1,
   alert_text_2   |-> alert_text_2,
   alert_status   |-> alert_status,
   alert_size     |-> alert_size,
   priority       |-> priority,
   visual_alert   |-> visual_alert,
   audible_alert  |-> audible_alert,
   duration       |-> duration \div DT_CTRL,
   alert_rate     |-> alert_rate,
   creation_delay |-> creation_delay \div DT_CTRL,
   alert_type     |-> "",
   event_type     |-> None]

Alert(alert_text_1, alert_text_2, alert_status, alert_size, priority, visual_alert, audible_alert, duration, alert_rate, creation_delay) ==
  [alert_text_1   |-> alert_text_1,
   alert_text_2   |-> alert_text_2,
   alert_status   |-> alert_status,
   alert_size     |-> alert_size,
   priority       |-> priority,
   visual_alert   |-> visual_alert,
   audible_alert  |-> audible_alert,
   duration       |-> duration \div DT_CTRL,
   alert_rate     |-> alert_rate,
   creation_delay |-> creation_delay,
   alert_type     |-> "",
   event_type     |-> None]

(* mutant: equal priorities ordered by duration *)
Alert__gt__by_duration(self, alert2) ==
  \/ self.priority > alert2.priority
  \/ self.priority = alert2.priority /\ self.duration > alert2.duration

(* mutant: the comparison not strict *)
Alert__ge__(self, alert2) == self.priority >= alert2.priority

Alert__gt__(self, alert2) == self.priority > alert2.priority

NoEntryAlert(alert_text_2, visual_alert) ==
  Alert(tr(1), alert_text_2, "normal", "mid", LOW, visual_alert, "refuse",
        3000, 0, 0)

SoftDisableAlert(alert_text_2) ==
  Alert(tr(2), alert_text_2, "userPrompt", "full", MID, "steerRequired",
        "warningSoft", 2000, 0, 0)

UserSoftDisableAlert(alert_text_2) ==
  [SoftDisableAlert(alert_text_2) EXCEPT !.alert_text_1 = tr(3)]

ImmediateDisableAlert(alert_text_2) ==
  Alert(tr(4), alert_text_2, "critical", "full", HIGHEST, "steerRequired",
        "warningImmediate", 4000, 0, 0)

EngagementAlert(audible_alert) ==
  Alert(NoText, NoText, "normal", "none", MID, "none", audible_alert,
        200, 0, 0)

NormalPermanentAlert(alert_text_1, alert_text_2, duration, priority, creation_delay) ==
  Alert(alert_text_1, alert_text_2, "normal",
        IF TextLen(alert_text_2) # 0 THEN "mid" ELSE "small",
        priority, "none", "none", duration, 0, creation_delay)

StartupAlert(alert_text_1, alert_text_2, alert_status) ==
  Alert(alert_text_1, alert_text_2, alert_status, "mid", LOWER, "none",
        "none", 10000, 0, 0)

IsAlert(x) == "priority" \in DOMAIN x

(* an exception raised instead of a value returned *)
Raise(exc) == [raise |-> exc]

IsRaise(x) == "raise" \in DOMAIN x

----------------------------------------------------------------------------
(* helper *)
get_display_speed(speed_ms, metric) ==
  <<speed_ms, IF metric THEN 1 ELSE 0>>

----------------------------------------------------------------------------
(* Alert callback functions.  A catalog entry that is not an Alert is a    *)
(* function of (CP, sm, metric, soft_disable_time): either a module-level  *)
(* function (FuncRef) or the closure soft_disable_alert(text) /            *)
(* user_soft_disable_alert(text) returns.                                  *)

FuncRef(name) == [func |-> name, alert_text_2 |-> NoText]

soft_disable_alert(alert_text_2) ==
  [func |-> "soft_disable_alert", alert_text_2 |-> alert_text_2]

user_soft_disable_alert(alert_text_2) ==
  [func |-> "user_soft_disable_alert", alert_text_2 |-> alert_text_2]

(* mutant: the half second itself still disabling immediately *)
soft_disable_alert_func_inclusive(alert_text_2, CP, sm, metric, soft_disable_time) ==
  IF soft_disable_time <= 500 \div DT_CTRL
    THEN ImmediateDisableAlert(alert_text_2)
    ELSE SoftDisableAlert(alert_text_2)

soft_disable_alert_func(alert_text_2, CP, sm, metric, soft_disable_time) ==
  IF soft_disable_time < 500 \div DT_CTRL
    THEN ImmediateDisableAlert(alert_text_2)
    ELSE SoftDisableAlert(alert_text_2)

user_soft_disable_alert_func(alert_text_2, CP, sm, metric, soft_disable_time) ==
  IF soft_disable_time < 500 \div DT_CTRL
    THEN ImmediateDisableAlert(alert_text_2)
    ELSE UserSoftDisableAlert(alert_text_2)

below_engage_speed_alert(CP, sm, metric, soft_disable_time) ==
  LET s == get_display_speed(CP.minEnableSpeed, metric)
  IN  NoEntryAlert(<<"below_engage_speed", s[1], s[2]>>, "none")

below_steer_speed_alert(CP, sm, metric, soft_disable_time) ==
  LET s == get_display_speed(CP.minSteerSpeed, metric)
  IN  Alert(<<"below_steer_speed", s[1], s[2]>>, NoText, "userPrompt",
            "small", MID, "none", "prompt", 400, 0, 0)

(* mutant: the 300 s creation delay given to the calibration alert *)
calibration_incomplete_alert_delayed(CP, sm, metric, soft_disable_time) ==
  LET s == get_display_speed(0, metric)
  IN  Alert(<<"calibration_in_progress", sm.calPerc, 0>>,
            <<"drive_above_MIN_SPEED_FILTER", s[1], s[2]>>, "normal", "mid",
            LOWEST, "none", "none", 200, 0, 300000)

calibration_incomplete_alert(CP, sm, metric, soft_disable_time) ==
  LET s == get_display_speed(0, metric)
  IN  Alert(<<"calibration_in_progress", sm.calPerc, 0>>,
            <<"drive_above_MIN_SPEED_FILTER", s[1], s[2]>>, "normal", "mid", LOWEST, "none",
            "none", 200, 0, 0)

no_gps_alert(CP, sm, metric, soft_disable_time) ==
  LET gps_integrated == sm.pandaType \in {"uno", "dos"}
  IN  Alert(tr(10), IF gps_integrated THEN tr(11) ELSE tr(12), "normal",
            "mid", LOWER, "none", "none", 200, 0, 300000)

wrong_car_mode_alert(CP, sm, metric, soft_disable_time) ==
  NoEntryAlert(IF CP.carName = "honda" THEN tr(14) ELSE tr(13), "none")

joystick_alert(CP, sm, metric, soft_disable_time) ==
  LET axes == sm.axes
  IN  IF Len(axes) = 1
        THEN Raise("ValueError")  \* gb, steer = <one element>
        ELSE LET gb    == IF Len(axes) # 0 THEN axes[1] ELSE 0
                 steer == IF Len(axes) # 0 THEN axes[2] ELSE 0
             IN  NormalPermanentAlert(<<"joystick_mode", 0, 0>>,
                                      <<"gas_steer", gb * 100, steer * 100>>,
                                      200, LOWER, 0)

(* A file is <<"absent", 0>>, <<"line", n>> (its first line parses to n)   *)
(* or <<"bad", 0>> (int(add, 0) raises ValueError).                        *)
can_error_alert_on(fs, CP, sm, metric, soft_disable_time) ==
  IF fs.can_missing[1] # "absent"
    THEN IF fs.can_missing[1] = "bad"
           THEN Raise("ValueError")
           ELSE Alert(<<"can_missing", fs.can_missing[2], 0>>, NoText,
                      "normal", "small", LOW, "none", "none", 200, 0, 1000)
    ELSE IF fs.can_timeout[1] # "absent"
           THEN IF fs.can_timeout[1] = "bad"
                  THEN Raise("ValueError")
                  ELSE Alert(<<"can_timeout", fs.can_timeout[2], 0>>, NoText,
                             "normal", "small", LOW, "none", "none", 200, 0,
                             1000)
           ELSE Alert(<<"can_check_harness", 0, 0>>, NoText, "normal",
                      "small", LOW, "none", "none", 200, 0, 1000)

----------------------------------------------------------------------------
(* The catalog as the module builds it at import *)
EmptyDict == [k \in {} |-> k]

EVENTS_AT_IMPORT ==
  [
    stockFcw |-> EmptyDict,
    joystickDebug |->
      [warning |-> FuncRef("joystick_alert"),
       permanent |-> NormalPermanentAlert(tr(21), NoText, 200, LOWER, 0)],
    controlsInitializing |->
      [noEntry |-> NoEntryAlert(tr(22), "none")],
    startup |->
      [permanent |-> StartupAlert(tr(23), tr(5), "normal")],
    startupMaster |->
      [permanent |-> StartupAlert(tr(24), tr(5), "userPrompt")],
    startupNoControl |->
      [permanent |-> StartupAlert(tr(25), tr(5), "normal")],
    startupNoCar |->
      [permanent |-> StartupAlert(tr(26), tr(5), "normal")],
    startupNoFw |->
      [permanent |-> StartupAlert(tr(27), tr(28), "userPrompt")],
    dashcamMode |->
      [permanent |-> NormalPermanentAlert(tr(29), NoText, 200, LOWEST, 0)],
    invalidLkasSetting |->
      [permanent |-> NormalPermanentAlert(tr(30), tr(31), 200, LOWER, 0)],
    cruiseMismatch |-> EmptyDict,
    carUnrecognized |->
      [permanent |-> NormalPermanentAlert(tr(32), tr(33), 200, LOWEST, 0)],
    stockAeb |->
      [permanent |-> Alert(tr(34), tr(35), "critical", "full", HIGHEST, "fcw", "none", 2000, 0, 0),
       noEntry |-> NoEntryAlert(tr(36), "none")],
    fcw |->
      [permanent |-> Alert(tr(37), tr(38), "critical", "full", HIGHEST, "fcw", "warningSoft", 2000, 0, 0)],
    ldw |->
      [permanent |-> Alert(tr(39), NoText, "userPrompt", "small", LOW, "ldw", "prompt", 3000, 0, 0)],
    gasPressed |->
      [preEnable |-> Alert(tr(40), NoText, "normal", "small", LOWEST, "none", "none", 100, 0, 1000)],
    vehicleModelInvalid |->
      [noEntry |-> NoEntryAlert(tr(41), "none"),
       softDisable |-> soft_disable_alert(tr(42))],
    steerTempUnavailableSilent |->
      [warning |-> Alert(tr(43), NoText, "userPrompt", "small", LOW, "steerRequired", "prompt", 1000, 0, 0)],
    preDriverDistracted |->
      [warning |-> Alert(tr(44), NoText, "normal", "small", LOW, "none", "none", 100, 0, 0)],
    promptDriverDistracted |->
      [warning |-> Alert(tr(45), tr(46), "userPrompt", "mid", MID, "steerRequired", "promptDistracted", 100, 0, 0)],
    driverDistracted |->
      [warning |-> Alert(tr(47), tr(48), "critical", "full", HIGH, "steerRequired", "warningImmediate", 100, 0, 0)],
    preDriverUnresponsive |->
      [warning |-> Alert(tr(49), NoText, "normal", "small", LOW, "steerRequired", "none", 100, 750, 0)],
    promptDriverUnresponsive |->
      [warning |-> Alert(tr(50), tr(51), "userPrompt", "mid", MID, "steerRequired", "promptDistracted", 100, 0, 0)],
    driverUnresponsive |->
      [warning |-> Alert(tr(52), tr(53), "critical", "full", HIGH, "steerRequired", "warningImmediate", 100, 0, 0)],
    manualRestart |->
      [warning |-> Alert(tr(54), tr(55), "userPrompt", "mid", LOW, "none", "none", 200, 0, 0)],
    resumeRequired |->
      [warning |-> Alert(tr(56), tr(57), "userPrompt", "mid", LOW, "none", "none", 200, 0, 0)],
    belowSteerSpeed |->
      [warning |-> FuncRef("below_steer_speed_alert")],
    preLaneChangeLeft |->
      [warning |-> Alert(tr(58), NoText, "normal", "small", LOW, "none", "none", 100, 750, 0)],
    preLaneChangeRight |->
      [warning |-> Alert(tr(59), NoText, "normal", "small", LOW, "none", "none", 100, 750, 0)],
    laneChangeBlocked |->
      [warning |-> Alert(tr(60), NoText, "userPrompt", "small", LOW, "none", "prompt", 100, 0, 0)],
    laneChange |->
      [warning |-> Alert(tr(61), NoText, "normal", "small", LOW, "none", "none", 100, 0, 0)],
    e2eLongAlert |->
      [warning |-> Alert(tr(62), tr(63), "normal", "mid", LOW, "none", "warning", 2000, 0, 0)],
    laneChangeManual |->
      [warning |-> Alert(tr(64), tr(65), "userPrompt", "mid", LOW, "none", "none", 100, 750, 0)],
    emgButtonManual |->
      [warning |-> Alert(tr(66), NoText, "userPrompt", "small", LOW, "none", "none", 100, 750, 0)],
    driverSteering |->
      [warning |-> Alert(tr(67), tr(68), "userPrompt", "mid", LOW, "none", "none", 100, 750, 0)],
    steerSaturated |->
      [warning |-> Alert(tr(69), tr(70), "userPrompt", "mid", LOW, "none", "prompt", 1000, 0, 0)],
    fanMalfunction |->
      [permanent |-> NormalPermanentAlert(tr(71), tr(72), 200, LOWER, 0)],
    cameraMalfunction |->
      [permanent |-> NormalPermanentAlert(tr(73), tr(74), 200, LOWER, 0)],
    gpsMalfunction |->
      [permanent |-> NormalPermanentAlert(tr(75), tr(76), 200, LOWER, 0)],
    localizerMalfunction |->
      [permanent |-> NormalPermanentAlert(tr(77), tr(78), 200, LOWER, 0)],
    modeChangeOpenpilot |->
      [warning |-> Alert(tr(79), NoText, "normal", "small", LOW, "none", "warning", 1000, 0, 0)],
    modeChangeDistcurv |->
      [warning |-> Alert(tr(80), NoText, "normal", "small", LOW, "none", "warning", 1000, 0, 0)],
    modeChangeDistance |->
      [warning |-> Alert(tr(81), NoText, "normal", "small", LOW, "none", "warning", 1000, 0, 0)],
    modeChangeCurv |->
      [warning |-> Alert(tr(82), NoText, "normal", "small", LOW, "none", "warning", 1000, 0, 0)],
    modeChangeOneway |->
      [warning |-> Alert(tr(83), NoText, "normal", "small", LOW, "none", "warning", 1000, 0, 0)],
    modeChangeMaponly |->
      [warning |-> Alert(tr(84), NoText, "normal", "small", LOW, "none", "warning", 1000, 0, 0)],
    needBrake |->
      [warning |-> Alert(tr(85), tr(86), "normal", "full", LOW, "none", "promptRepeat", 100, 0, 0)],
    routineDriveOn |->
      [warning |-> Alert(tr(87), NoText, "normal", "small", LOW, "none", "none", 1000, 0, 0)],
    pcmEnable |->
      [enable |-> EngagementAlert("engage")],
    buttonEnable |->
      [enable |-> EngagementAlert("engage")],
    pcmDisable |->
      [userDisable |-> EngagementAlert("disengage")],
    buttonCancel |->
      [userDisable |-> EngagementAlert("disengage")],
    brakeHold |->
      [warning |-> Alert(tr(88), NoText, "normal", "full", LOW, "none", "none", 1000, 0, 0)],
    parkBrake |->
      [userDisable |-> EngagementAlert("none"),
       noEntry |-> NoEntryAlert(tr(89), "none")],
    pedalPressed |->
      [userDisable |-> EngagementAlert("none"),
       noEntry |-> NoEntryAlert(tr(90), "brakePressed")],
    wrongCarMode |->
      [userDisable |-> EngagementAlert("disengage"),
       noEntry |-> FuncRef("wrong_car_mode_alert")],
    wrongCruiseMode |->
      [userDisable |-> EngagementAlert("none"),
       noEntry |-> NoEntryAlert(tr(91), "none")],
    steerTempUnavailable |->
      [softDisable |-> soft_disable_alert(tr(92)),
       noEntry |-> NoEntryAlert(tr(93), "none")],
    isgActive |->
      [warning |-> Alert(tr(94), NoText, "normal", "small", LOW, "none", "none", 100, 750, 0)],
    camSpeedDown |->
      [warning |-> Alert(tr(95), NoText, "normal", "small", LOW, "none", "none", 500, 750, 0)],
    standstillResButton |->
      [warning |-> Alert(tr(96), NoText, "normal", "small", LOW, "none", "none", 500, 750, 0)],
    gapAdjusting |->
      [warning |-> Alert(tr(97), NoText, "normal", "small", LOW, "none", "none", 500, 750, 0)],
    resCruise |->
      [warning |-> Alert(tr(98), NoText, "normal", "small", LOW, "none", "none", 500, 0, 0)],
    curvSpeedDown |->
      [warning |-> Alert(tr(99), NoText, "normal", "small", LOW, "none", "none", 500, 0, 0)],
    cutinDetection |->
      [warning |-> Alert(tr(100), NoText, "normal", "small", LOW, "none", "none", 500, 0, 0)],
    outOfSpace |->
      [permanent |-> NormalPermanentAlert(tr(101), NoText, 200, LOWER, 0),
       noEntry |-> NoEntryAlert(tr(102), "none")],
    belowEngageSpeed |->
      [noEntry |-> FuncRef("below_engage_speed_alert")],
    sensorDataInvalid |->
      [permanent |-> Alert(tr(103), tr(104), "normal", "mid", LOWER, "none", "none", 200, 0, 1000),
       noEntry |-> NoEntryAlert(tr(105), "none")],
    noGps |->
      [permanent |-> FuncRef("no_gps_alert")],
    soundsUnavailable |->
      [permanent |-> NormalPermanentAlert(tr(106), tr(107), 200, LOWER, 0),
       noEntry |-> NoEntryAlert(tr(108), "none")],
    tooDistracted |->
      [noEntry |-> NoEntryAlert(tr(109), "none")],
    overheat |->
      [permanent |-> NormalPermanentAlert(tr(110), NoText, 200, LOWER, 0),
       softDisable |-> soft_disable_alert(tr(111)),
       noEntry |-> NoEntryAlert(tr(112), "none")],
    wrongGear |->
      [userDisable |-> EngagementAlert("disengage"),
       noEntry |-> NoEntryAlert(tr(113), "none")],
    calibrationInvalid |->
      [permanent |-> NormalPermanentAlert(tr(114), tr(115), 200, LOWER, 0),
       softDisable |-> soft_disable_alert(tr(116)),
       noEntry |-> NoEntryAlert(tr(117), "none")],
    calibrationIncomplete |->
      [permanent |-> FuncRef("calibration_incomplete_alert"),
       softDisable |-> soft_disable_alert(tr(118)),
       noEntry |-> NoEntryAlert(tr(119), "none")],
    doorOpen |->
      [softDisable |-> user_soft_disable_alert(tr(120)),
       noEntry |-> NoEntryAlert(tr(121), "none")],
    seatbeltNotLatched |->
      [softDisable |-> user_soft_disable_alert(tr(122)),
       noEntry |-> NoEntryAlert(tr(123), "none")],
    espDisabled |->
      [softDisable |-> soft_disable_alert(tr(124)),
       noEntry |-> NoEntryAlert(tr(125), "none")],
    lowBattery |->
      [softDisable |-> soft_disable_alert(tr(126)),
       noEntry |-> NoEntryAlert(tr(127), "none")],
    commIssue |->
      [warning |-> Alert(tr(128), tr(129), "userPrompt", "mid", LOW, "none", "none", 1000, 0, 0)],
    commIssueAvgFreq |->
      [softDisable |-> soft_disable_alert(tr(130)),
       noEntry |-> NoEntryAlert(tr(131), "none")],
    processNotRunning |->
      [noEntry |-> NoEntryAlert(tr(132), "none")],
    radarFault |->
      [softDisable |-> soft_disable_alert(tr(133)),
       noEntry |-> NoEntryAlert(tr(134), "none")],
    modeldLagging |->
      [softDisable |-> soft_disable_alert(tr(135)),
       noEntry |-> NoEntryAlert(tr(136), "none")],
    posenetInvalid |->
      [softDisable |-> soft_disable_alert(tr(137)),
       noEntry |-> NoEntryAlert(tr(138), "none")],
    deviceFalling |->
      [softDisable |-> soft_disable_alert(tr(139)),
       noEntry |-> NoEntryAlert(tr(140), "none")],
    lowMemory |->
      [softDisable |-> soft_disable_alert(tr(141)),
       permanent |-> NormalPermanentAlert(tr(142), tr(143), 200, LOWER, 0),
       noEntry |-> NoEntryAlert(tr(144), "none")],
    highCpuUsage |->
      [noEntry |-> NoEntryAlert(tr(145), "none")],
    accFaulted |->
      [immediateDisable |-> ImmediateDisableAlert(tr(146)),
       permanent |-> NormalPermanentAlert(tr(147), NoText, 200, LOWER, 0),
       noEntry |-> NoEntryAlert(tr(148), "none")],
    controlsMismatch |->
      [immediateDisable |-> ImmediateDisableAlert(tr(149))],
    roadCameraError |->
      [permanent |-> NormalPermanentAlert(tr(150), NoText, 1000, LOWER, 30000)],
    driverCameraError |->
      [permanent |-> NormalPermanentAlert(tr(151), NoText, 1000, LOWER, 30000)],
    wideRoadCameraError |->
      [permanent |-> NormalPermanentAlert(tr(152), NoText, 1000, LOWER, 30000)],
    usbError |->
      [softDisable |-> soft_disable_alert(tr(153)),
       permanent |-> NormalPermanentAlert(tr(154), NoText, 200, LOWER, 0),
       noEntry |-> NoEntryAlert(tr(155), "none")],
    canError |->
      [permanent |-> FuncRef("can_error_alert"),
       immediateDisable |-> ImmediateDisableAlert(tr(156)),
       noEntry |-> NoEntryAlert(tr(157), "none")],
    steerUnavailable |->
      [immediateDisable |-> ImmediateDisableAlert(tr(158)),
       permanent |-> NormalPermanentAlert(tr(159), NoText, 200, LOWER, 0),
       noEntry |-> NoEntryAlert(tr(160), "none")],
    brakeUnavailable |->
      [immediateDisable |-> ImmediateDisableAlert(tr(161)),
       permanent |-> NormalPermanentAlert(tr(162), NoText, 200, LOWER, 0),
       noEntry |-> NoEntryAlert(tr(163), "none")],
    reverseGear |->
      [permanent |-> Alert(tr(164), NoText, "userPrompt", "full", LOWEST, "none", "none", 200, 0, 500),
       noEntry |-> NoEntryAlert(tr(165), "none")],
    gearNotD |->
      [warning |-> Alert(tr(166), NoText, "userPrompt", "full", LOWEST, "none", "none", 200, 0, 500),
       noEntry |-> NoEntryAlert(tr(167), "none")],
    cruiseDisabled |->
      [immediateDisable |-> ImmediateDisableAlert(tr(168))],
    plannerError |->
      [immediateDisable |-> ImmediateDisableAlert(tr(169)),
       noEntry |-> NoEntryAlert(tr(170), "none")],
    relayMalfunction |->
      [immediateDisable |-> ImmediateDisableAlert(tr(171)),
       permanent |-> NormalPermanentAlert(tr(172), tr(173), 200, LOWER, 0),
       noEntry |-> NoEntryAlert(tr(174), "none")],
    noTarget |->
      [immediateDisable |-> Alert(tr(175), tr(176), "normal", "mid", HIGH, "none", "none", 3000, 0, 0),
       noEntry |-> NoEntryAlert(tr(177), "none")],
    speedTooLow |->
      [immediateDisable |-> Alert(tr(178), tr(179), "normal", "mid", HIGH, "none", "none", 3000, 0, 0)],
    speedTooHigh |->
      [warning |-> Alert(tr(180), tr(181), "userPrompt", "mid", HIGH, "steerRequired", "promptRepeat", 4000, 0, 0),
       noEntry |-> NoEntryAlert(tr(182), "none")],
    lowSpeedLockout |->
      [permanent |-> NormalPermanentAlert(tr(183), NoText, 200, LOWER, 0),
       noEntry |-> NoEntryAlert(tr(184), "none")],
    lkasDisabled |->
      [warning |-> Alert(tr(185), NoText, "normal", "small", LOW, "none", "disengage", 1000, 500, 0)],
    lkasEnabled |->
      [warning |-> Alert(tr(186), NoText, "normal", "small", LOW, "none", "engage", 1000, 0, 0)],
    unSleepMode |->
      [warning |-> Alert(tr(187), NoText, "normal", "small", LOW, "none", "none", 2000, 0, 0)],
    speedBump |->
      [warning |-> Alert(tr(188), NoText, "normal", "small", LOW, "none", "none", 500, 0, 0)],
    sccDriverOverride |->
      [warning |-> Alert(tr(189), NoText, "normal", "small", LOW, "none", "none", 500, 0, 0)],
    doNotDisturb |->
      [warning |-> Alert(tr(190), tr(191), "normal", "mid", LOW, "none", "none", 5000, 0, 0)],
    chimeAtResume |->
      [warning |-> Alert(tr(192), NoText, "normal", "small", LOW, "none", "dingdong", 3000, 0, 0)]
  ]

----------------------------------------------------------------------------
(* Bounds of the model *)

(* longest active list an add / add_from_msg may produce *)
MaxLen == 2

(* Next takes no clear() that would advance a streak beyond this *)
MaxStreak == 1

(* the same for the cycle harness GateNext: 1 s is 100 cycles *)
MaxGateStreak == 101

(* the same for the scenario CalNext: 300 s is 30000 cycles *)
MaxCalStreak == 30000

(* longest active list of the slot-selection scenario SelectNext *)
MaxPick == 4

(* longest duration and creation delay, in ms, an Alert is constructed     *)
(* with in ConstructNext, and the highest streak its gate is tried with    *)
MaxTime == 25

MaxCycles == 3

(* highest streak of StickyNext *)
MaxStickyStreak == 2

(* highest soft_disable_time, in cycles, create_alerts is called with in   *)
(* SoftNext                                                                *)
MaxSoftTime == 52

(* identifiers add() is called with *)
EventIds == {"reverseGear", "doorOpen"}

(* an identifier that is not a key of EVENTS, received on the wire only *)
UnknownEvent == "unknownEvent"

(* event-name lists add_from_msg is called with *)
WireLists == {<<UnknownEvent>>, <<"stockFcw", "reverseGear">>}

(* category lists create_alerts is called with *)
TypeLists ==
  {<<PERMANENT, NO_ENTRY>>, <<NO_ENTRY, "unknownType", SOFT_DISABLE>>}

(* categories any() is called with *)
AnyTypes == {NO_ENTRY, PERMANENT}

(* the identifiers the cycle harness asserts, one at a time:              *)
(* reverseGear: permanent after 0.5 s, noEntry at once;                    *)
(* canError: permanent from can_error_alert after 1 s, noEntry at once     *)
GateIds == {"reverseGear", "canError"}

GateTypes == <<PERMANENT, NO_ENTRY>>

(* the identifiers of the continuous-assertion scenario *)
CalIds == <<"calibrationIncomplete", "noGps">>

(* callback_args: None (the default), or (CP, sm, metric, soft_disable_time) *)
NoArgs == <<>>

ArgsA ==
  <<[minEnableSpeed |-> 5, minSteerSpeed |-> 3, carName |-> "honda"],
    [calPerc |-> 40, pandaType |-> "uno", axes |-> <<>>],
    TRUE, 49>>

ArgsB ==
  <<[minEnableSpeed |-> 8, minSteerSpeed |-> 6, carName |-> "hyundai"],
    [calPerc |-> 90, pandaType |-> "black", axes |-> <<1>>],
    FALSE, 50>>

ArgChoices == {NoArgs, ArgsA}

----------------------------------------------------------------------------
(* State *)
VARIABLES
  events,         \* Events.events: the active list
  static_events,  \* Events.static_events: the persistent list
  events_prev,    \* Events.events_prev: streak per catalog identifier
  alert_stamps,   \* the catalog's mutable part: for each (event, category)
                  \* whose Alert object has been written to, its
                  \* <<alert_type, event_type>>; absent: <<"", None>>
  files,          \* /data/log/can_missing.txt and can_timeout.txt
  last,           \* the last call: operation, inputs, value returned, exception
  run,            \* per identifier, the number of consecutive cycles, the
                  \* current one included, in which it has been in active
  wire,           \* the message in flight: the last published to_msg()
                  \* result, with the active list it encodes
  clear_pc        \* where a clear() in progress stands: "idle" (none in
                  \* progress) or "events" (events_prev assigned, events not)

vars ==
  <<events, static_events, events_prev, alert_stamps, files, last, run, wire, clear_pc>>

Range(s) == {s[i] : i \in 1..Len(s)}

Count(s, x) == Cardinality({i \in 1..Len(s) : s[i] = x})

(* EVENTS[e][et] with the stamps written so far on it *)
Entry(stamps, e, et) ==
  IF <<e, et>> \in DOMAIN stamps
    THEN [EVENTS_AT_IMPORT[e][et] EXCEPT !.alert_type = stamps[<<e, et>>][1],
                                         !.event_type = stamps[<<e, et>>][2]]
    ELSE EVENTS_AT_IMPORT[e][et]

(* the module-level catalog EVENTS as it stands *)
CatalogWith(stamps) ==
  [e \in DOMAIN EVENTS_AT_IMPORT |->
     [et \in DOMAIN EVENTS_AT_IMPORT[e] |-> Entry(stamps, e, et)]]

EVENTS == CatalogWith(alert_stamps)

Call(op, arg, ret, err) == [op |-> op, arg |-> arg, ret |-> ret, err |-> err]

(* nothing published yet *)
NoMsg == [msg |-> <<>>, of |-> <<>>]

(* the catalog identifiers whose runs are recorded: those ever asserted *)
TrackedIds ==
  (EventIds \cup GateIds \cup Range(CalIds) \cup UNION {Range(m) : m \in WireLists})
    \cap DOMAIN EVENTS_AT_IMPORT

(* Events.__init__ *)
Init ==
  /\ events = <<>>
  /\ static_events = <<>>
  /\ events_prev = [k \in DOMAIN EVENTS_AT_IMPORT |-> 0]
  /\ alert_stamps = EmptyDict
  /\ files = [can_missing |-> <<"absent", 0>>, can_timeout |-> <<"absent", 0>>]
  /\ last = Call("__init__", <<>>, None, None)
  /\ run = [k \in TrackedIds |-> 0]
  /\ wire = NoMsg
  /\ clear_pc = "idle"

----------------------------------------------------------------------------
(* mutant: a sticky event appended to the persistent list only *)
add_either(event_list, static_list, event_name, static) ==
  [static_events |-> IF static THEN Append(static_list, event_name)
                               ELSE static_list,
   events        |-> IF static THEN event_list
                               ELSE Append(event_list, event_name)]

(* mutant: active left by clear() as the persistent list itself, so that   *)
(* the add() that follows clear() appends to both                          *)
add_aliased(event_list, static_list, event_name, static) ==
  [static_events |-> IF static \/ last.op = "clear"
                       THEN Append(static_list, event_name)
                       ELSE static_list,
   events        |-> Append(event_list, event_name)]

(* mutant: an identifier kept once in the persistent list *)
add_static_once(event_list, static_list, event_name, static) ==
  [static_events |-> IF static /\ event_name \notin Range(static_list)
                       THEN Append(static_list, event_name)
                       ELSE static_list,
   events        |-> Append(event_list, event_name)]

(* Events.add: the two lists after the call *)
add(event_list, static_list, event_name, static) ==
  [static_events |-> IF static THEN Append(static_list, event_name)
                               ELSE static_list,
   events        |-> Append(event_list, event_name)]

(* the run of an identifier starts or continues when it enters active *)
RunOnAdd(r, event_list, names) ==
  [k \in DOMAIN r |->
     IF k \in Range(names) /\ k \notin Range(event_list) THEN r[k] + 1 ELSE r[k]]

Add(event_name, static) ==
  /\ static_events' = add(events, static_events, event_name, static).static_events
  /\ events' = add(events, static_events, event_name, static).events
  /\ last' = Call("add", <<event_name, static>>, None, None)
  /\ run' = RunOnAdd(run, events, <<event_name>>)
  /\ UNCHANGED <<events_prev, alert_stamps, files, wire, clear_pc>>

(* mutant: the streak advanced once per occurrence in active *)
clear_events_prev_per_occurrence(event_list, prev) ==
  [k \in DOMAIN prev |->
     IF k \in Range(event_list) THEN prev[k] + Count(event_list, k) ELSE 0]

(* mutant: the streak of an absent identifier kept *)
clear_events_prev_no_reset(event_list, prev) ==
  [k \in DOMAIN prev |->
     IF k \in Range(event_list) THEN prev[k] + 1 ELSE prev[k]]

(* mutant: the streak of a present identifier restarted *)
clear_events_prev_restart(event_list, prev) ==
  [k \in DOMAIN prev |-> IF k \in Range(event_list) THEN 1 ELSE 0]

(* Events.clear *)
clear_events_prev(event_list, prev) ==
  [k \in DOMAIN prev |-> IF k \in Range(event_list) THEN prev[k] + 1 ELSE 0]

(* mutant: active reset to empty *)
clear_events_empty(static_list) == <<>>

clear_events(static_list) == static_list

(* at a cycle boundary a run continues for what the new cycle starts with, *)
(* is kept for what the cycle just ended held, and ends for the rest       *)
RunOnClear(r, event_list, static_list) ==
  [k \in DOMAIN r |->
     IF k \in Range(static_list) THEN r[k] + 1
     ELSE IF k \in Range(event_list) THEN r[k] ELSE 0]

Clear ==
  /\ events_prev' = clear_events_prev(events, events_prev)
  /\ events' = clear_events(static_events)
  /\ last' = Call("clear", <<>>, None, None)
  /\ run' = RunOnClear(run, events, static_events)
  /\ UNCHANGED <<static_events, alert_stamps, files, wire, clear_pc>>

(* dict.get(e, {}) *)
Get(e) == IF e \in DOMAIN EVENTS_AT_IMPORT THEN EVENTS_AT_IMPORT[e] ELSE EmptyDict

(* mutant: any() counting only the fixed alerts that pass the            *)
(* creation-delay gate                                                   *)
any_past_delay(event_list, event_type) ==
  \E i \in 1..Len(event_list) :
    /\ event_type \in DOMAIN Get(event_list[i])
    /\ IsAlert(Get(event_list[i])[event_type]) =>
         DT_CTRL * (events_prev[event_list[i]] + 1)
           >= Get(event_list[i])[event_type].creation_delay

(* Events.any *)
any(event_list, event_type) ==
  \E i \in 1..Len(event_list) : event_type \in DOMAIN Get(event_list[i])

AnyOp(event_type) ==
  /\ last' = Call("any", <<event_type>>, any(events, event_type), None)
  /\ UNCHANGED <<events, static_events, events_prev, alert_stamps, files, run,
               wire, clear_pc>>

(* the call of a catalog entry that is not an Alert with callback_args *)
CallAlert(f, callback_args, fs) ==
  IF Len(callback_args) # 4
    THEN Raise("TypeError")  \* missing positional arguments
    ELSE LET CP == callback_args[1]
             sm == callback_args[2]
             metric == callback_args[3]
             soft_disable_time == callback_args[4]
         IN  CASE f.func = "soft_disable_alert" ->
                    soft_disable_alert_func(f.alert_text_2, CP, sm, metric,
                                            soft_disable_time)
               [] f.func = "user_soft_disable_alert" ->
                    user_soft_disable_alert_func(f.alert_text_2, CP, sm, metric,
                                                 soft_disable_time)
               [] f.func = "below_engage_speed_alert" ->
                    below_engage_speed_alert(CP, sm, metric, soft_disable_time)
               [] f.func = "below_steer_speed_alert" ->
                    below_steer_speed_alert(CP, sm, metric, soft_disable_time)
               [] f.func = "calibration_incomplete_alert" ->
                    calibration_incomplete_alert(CP, sm, metric,
                                                 soft_disable_time)
               [] f.func = "no_gps_alert" ->
                    no_gps_alert(CP, sm, metric, soft_disable_time)
               [] f.func = "wrong_car_mode_alert" ->
                    wrong_car_mode_alert(CP, sm, metric, soft_disable_time)
               [] f.func = "joystick_alert" ->
                    joystick_alert(CP, sm, metric, soft_disable_time)
               [] f.func = "can_error_alert" ->
                    can_error_alert_on(fs, CP, sm, metric, soft_disable_time)

(* mutant: the gate without the current cycle *)
GatePasses_without_current(streak, alert) ==
  DT_CTRL * streak >= alert.creation_delay

(* the creation-delay gate of create_alerts *)
GatePasses(streak, alert) == DT_CTRL * (streak + 1) >= alert.creation_delay

(* f"{EVENT_NAME[e]}/{et}" *)
AlertTypeName(e, et) == e \o "/" \o et

(* the alert create_alerts writes its two stamps on *)
Stamp(alert, e, et) ==
  [alert EXCEPT !.alert_type = AlertTypeName(e, et), !.event_type = et]

(* mutant: one Alert object shared by the categories of an event, so that *)
(* a stamp written for one category shows on the others                  *)
WriteStamp_shared(stamps, e, et) ==
  [p \in DOMAIN stamps \cup {<<e, et>>} |->
     IF p[1] = e THEN <<AlertTypeName(e, et), et>> ELSE stamps[p]]

(* alert.alert_type = ...; alert.event_type = et on an Alert of the catalog *)
WriteStamp(stamps, e, et) ==
  [p \in DOMAIN stamps \cup {<<e, et>>} |->
     IF p = <<e, et>> THEN <<AlertTypeName(e, et), et>> ELSE stamps[p]]

(* The two loops of create_alerts from position (i, j) on.  acc holds the  *)
(* list built so far, the stamps on the catalog (an entry that is an Alert *)
(* is stamped in place) and the exception that ended the call, if any.     *)
RECURSIVE create_alerts_loop(_, _, _, _, _, _, _, _)
create_alerts_loop(event_list, prev, event_types, callback_args, fs, i, j, acc) ==
  IF acc.err # None \/ i > Len(event_list) THEN acc
  ELSE
    LET e == event_list[i] IN
    IF e \notin DOMAIN EVENTS_AT_IMPORT
      THEN [acc EXCEPT !.err = "KeyError"]  \* EVENTS[e]
    ELSE IF j > Len(event_types)
      THEN create_alerts_loop(event_list, prev, event_types, callback_args,
                              fs, i + 1, 1, acc)
    ELSE
      LET et == event_types[j] IN
      IF et \notin DOMAIN EVENTS_AT_IMPORT[e]
        THEN create_alerts_loop(event_list, prev, event_types, callback_args,
                                fs, i, j + 1, acc)
      ELSE
        LET entry == Entry(acc.stamps, e, et)
            alert == IF IsAlert(entry) THEN entry
                     ELSE CallAlert(entry, callback_args, fs)
        IN
        IF IsRaise(alert) THEN [acc EXCEPT !.err = alert.raise]
        ELSE IF GatePasses(prev[e], alert)
          THEN create_alerts_loop(
                 event_list, prev, event_types, callback_args, fs, i, j + 1,
                 [ret    |-> Append(acc.ret, Stamp(alert, e, et)),
                  stamps |-> IF IsAlert(entry)
                               THEN WriteStamp(acc.stamps, e, et)
                               ELSE acc.stamps,
                  err    |-> None])
          ELSE create_alerts_loop(event_list, prev, event_types,
                                  callback_args, fs, i, j + 1, acc)

(* mutant: the loops nested the other way, categories outermost *)
RECURSIVE create_alerts_loop_by_type(_, _, _, _, _, _, _)
create_alerts_loop_by_type(event_list, prev, event_types, callback_args, fs, j, acc) ==
  IF acc.err # None \/ j > Len(event_types) THEN acc
  ELSE create_alerts_loop_by_type(
         event_list, prev, event_types, callback_args, fs, j + 1,
         create_alerts_loop(event_list, prev, <<event_types[j]>>,
                            callback_args, fs, 1, 1, acc))

create_alerts_by_type(event_list, prev, stamps, fs, event_types, callback_args) ==
  create_alerts_loop_by_type(event_list, prev, event_types, callback_args, fs,
                             1, [ret |-> <<>>, stamps |-> stamps, err |-> None])

(* mutant: EVENTS[e][et] looked up without the test `et in types` *)
create_alerts_unguarded(event_list, prev, stamps, fs, event_types, callback_args) ==
  IF \E i \in 1..Len(event_list), j \in 1..Len(event_types) :
       event_types[j] \notin DOMAIN Get(event_list[i])
    THEN [ret |-> <<>>, stamps |-> stamps, err |-> "KeyError"]
    ELSE create_alerts_loop(event_list, prev, event_types, callback_args, fs,
                            1, 1,
                            [ret |-> <<>>, stamps |-> stamps, err |-> None])

(* mutant: what a factory raises caught, the alerts gathered so far returned *)
create_alerts_swallowing(event_list, prev, stamps, fs, event_types, callback_args) ==
  LET r == create_alerts_loop(event_list, prev, event_types, callback_args,
                              fs, 1, 1,
                              [ret |-> <<>>, stamps |-> stamps, err |-> None])
  IN  IF r.err \in {"ValueError", "TypeError"} THEN [r EXCEPT !.err = None]
      ELSE r

(* Events.create_alerts: [ret, stamps, err] *)
create_alerts(event_list, prev, stamps, fs, event_types, callback_args) ==
  create_alerts_loop(event_list, prev, event_types, callback_args, fs, 1, 1,
                     [ret |-> <<>>, stamps |-> stamps, err |-> None])

(* mutant: create_alerts advancing the streak of every active identifier *)
CreateAlerts_advancing(event_types, callback_args) ==
  LET r == create_alerts(events, events_prev, alert_stamps, files, event_types,
                         callback_args)
  IN  /\ alert_stamps' = r.stamps
      /\ last' = Call("create_alerts", <<event_types, callback_args>>,
                      IF r.err = None THEN r.ret ELSE None, r.err)
      /\ events_prev' = [k \in DOMAIN events_prev |->
                           IF k \in Range(events) /\ events_prev[k] < MaxStreak
                             THEN events_prev[k] + 1 ELSE events_prev[k]]
      /\ UNCHANGED <<events, static_events, files, run, wire, clear_pc>>

CreateAlerts(event_types, callback_args) ==
  LET r == create_alerts(events, events_prev, alert_stamps, files, event_types,
                         callback_args)
  IN  /\ alert_stamps' = r.stamps
      /\ last' = Call("create_alerts", <<event_types, callback_args>>,
                      IF r.err = None THEN r.ret ELSE None, r.err)
      /\ UNCHANGED <<events, static_events, events_prev, files, run, wire, clear_pc>>

(* mutant: active replaced by the identifiers of the message *)
add_from_msg_replacing(event_list, msg_names) == msg_names

(* mutant: an identifier that is no key of EVENTS dropped *)
RECURSIVE add_from_msg_known_only(_, _)
add_from_msg_known_only(event_list, msg_names) ==
  IF msg_names = <<>> THEN event_list
  ELSE add_from_msg_known_only(
         IF Head(msg_names) \in DOMAIN EVENTS_AT_IMPORT
           THEN Append(event_list, Head(msg_names)) ELSE event_list,
         Tail(msg_names))

(* mutant: each identifier inserted at the front of active *)
RECURSIVE add_from_msg_prepending(_, _)
add_from_msg_prepending(event_list, msg_names) ==
  IF msg_names = <<>> THEN event_list
  ELSE add_from_msg_prepending(<<Head(msg_names)>> \o event_list,
                               Tail(msg_names))

(* Events.add_from_msg: the message is the list of its entries' names *)
RECURSIVE add_from_msg(_, _)
add_from_msg(event_list, msg_names) ==
  IF msg_names = <<>> THEN event_list
  ELSE add_from_msg(Append(event_list, Head(msg_names)), Tail(msg_names))

AddFromMsg(msg_names) ==
  /\ events' = add_from_msg(events, msg_names)
  /\ last' = Call("add_from_msg", <<msg_names>>, None, None)
  /\ run' = RunOnAdd(run, events, msg_names)
  /\ UNCHANGED <<static_events, events_prev, alert_stamps, files, wire, clear_pc>>

(* mutant: no CarEvent for an identifier without a category *)
to_msg_flagged_only(event_list) ==
  LET Flagged(e) == DOMAIN Get(e) # {}
      kept == SelectSeq(event_list, Flagged)
  IN  [i \in 1..Len(kept) |-> [name |-> kept[i], flags |-> DOMAIN Get(kept[i])]]

(* Events.to_msg: one CarEvent per active identifier, with its flags *)
to_msg(event_list) ==
  [i \in 1..Len(event_list) |->
     [name  |-> event_list[i],
      flags |-> DOMAIN Get(event_list[i])]]

ToMsg ==
  /\ last' = Call("to_msg", <<>>, to_msg(events), None)
  /\ UNCHANGED <<events, static_events, events_prev, alert_stamps, files, run,
               wire, clear_pc>>

(* e.name.raw of every entry e of a message *)
Names(msg) == [i \in 1..Len(msg) |-> msg[i].name]

(* to_msg() whose result the caller publishes *)
Publish ==
  /\ last' = Call("to_msg", <<>>, to_msg(events), None)
  /\ wire' = [msg |-> to_msg(events), of |-> events]
  /\ UNCHANGED <<events, static_events, events_prev, alert_stamps, files, run,
               clear_pc>>

(* add_from_msg() of the message in flight *)
Receive == AddFromMsg(Names(wire.msg))

----------------------------------------------------------------------------
(* Any interleaving of the six operations on one engine *)
(* no streak that the next clear() advances has reached n *)
StreakBelow(n) ==
  \A k \in DOMAIN events_prev : k \in Range(events) => events_prev[k] < n

Next ==
  \/ \E e \in EventIds, static \in BOOLEAN :
       Len(events) < MaxLen /\ Add(e, static)
  \/ StreakBelow(MaxStreak) /\ Clear
  \/ \E et \in AnyTypes : AnyOp(et)
  \/ \E ets \in TypeLists, args \in ArgChoices : CreateAlerts(ets, args)
  \/ \E m \in WireLists :
       Len(events) + Len(m) <= MaxLen /\ AddFromMsg(m)
  \/ ToMsg

Spec == Init /\ [][Next]_vars

----------------------------------------------------------------------------
(* The control loop's cycle: clear() at the start of the cycle, then the   *)
(* cycle's add() calls, then create_alerts.  One identifier is asserted at *)
(* a time, for up to MaxGateStreak consecutive cycles, with or without     *)
(* gaps, added once or several times a cycle, sticky or not.               *)
OnlyActive(e) ==
  \A k \in TrackedIds \ {e} : run[k] = 0 /\ k \notin Range(events)

GateNext ==
  \/ StreakBelow(MaxGateStreak) /\ Clear
  \/ \E e \in GateIds, static \in BOOLEAN :
       /\ last.op \in {"clear", "add"}
       /\ Len(events) < MaxLen
       /\ OnlyActive(e)
       /\ Add(e, static)
  \/ last.op \in {"clear", "add"} /\ CreateAlerts(GateTypes, ArgsA)

GateSpec == Init /\ [][GateNext]_vars

(* The scenario of one identifier list asserted continuously: every cycle  *)
(* is clear(), one add() per identifier of CalIds, create_alerts.          *)
CalNext ==
  \/ /\ last.op \in {"__init__", "create_alerts"}
     /\ StreakBelow(MaxCalStreak)
     /\ Clear
  \/ /\ last.op \in {"clear", "add"}
     /\ Len(events) < Len(CalIds)
     /\ Add(CalIds[Len(events) + 1], FALSE)
  \/ /\ last.op = "add"
     /\ Len(events) = Len(CalIds)
     /\ CreateAlerts(<<PERMANENT>>, ArgsA)

CalSpec == Init /\ [][CalNext]_vars

(* An engine that relays events: it publishes its active list with        *)
(* to_msg() and takes in the message in flight with add_from_msg(), in any *)
(* interleaving with add, clear and create_alerts.  joystickDebug's        *)
(* warning alert is made by joystick_alert, which raises on ArgsB.         *)
RelayIds == {"doorOpen", "joystickDebug"}

RelayTypes == <<NO_ENTRY, WARNING>>

RelayNext ==
  \/ \E e \in RelayIds, static \in BOOLEAN :
       Len(events) < MaxLen /\ Add(e, static)
  \/ StreakBelow(MaxStreak) /\ Clear
  \/ Publish
  \/ wire # NoMsg /\ Len(events) + Len(wire.msg) <= MaxLen /\ Receive
  \/ \E args \in {ArgsA, ArgsB} : CreateAlerts(RelayTypes, args)

RelaySpec == Init /\ [][RelayNext]_vars

(* events whose fixed alerts cover the six priorities, several of them    *)
(* more than once                                                        *)
CompareIds ==
  {"reverseGear", "canError", "joystickDebug", "driverDistracted",
   "promptDriverDistracted", "speedTooHigh", "laneChange", "fcw", "ldw",
   "startup"}

(* the Alert objects the catalog holds for them, by value *)
FixedAlerts ==
  UNION {{EVENTS_AT_IMPORT[e][et] :
            et \in {t \in DOMAIN EVENTS_AT_IMPORT[e] :
                      IsAlert(EVENTS_AT_IMPORT[e][t])}} :
         e \in CompareIds}

(* alert > alert2 *)
Compare(alert, alert2) ==
  /\ last' = Call("__gt__", <<alert, alert2>>, Alert__gt__(alert, alert2), None)
  /\ UNCHANGED <<events, static_events, events_prev, alert_stamps, files, run,
               wire, clear_pc>>

(* any two alerts of the catalog compared *)
CompareNext == \E alert \in FixedAlerts, alert2 \in FixedAlerts : Compare(alert, alert2)

CompareSpec == Init /\ [][CompareNext]_vars

(* clear() as the two assignments it is, for a second thread that calls    *)
(* create_alerts between them: first the streaks ...                       *)
ClearBegin ==
  /\ clear_pc = "idle"
  /\ events_prev' = clear_events_prev(events, events_prev)
  /\ clear_pc' = "events"
  /\ last' = Call("clear", <<>>, None, None)
  /\ UNCHANGED <<events, static_events, alert_stamps, files, run, wire>>

(* ... then the active list *)
ClearEnd ==
  /\ clear_pc = "events"
  /\ events' = clear_events(static_events)
  /\ clear_pc' = "idle"
  /\ last' = Call("clear", <<>>, None, None)
  /\ run' = RunOnClear(run, events, static_events)
  /\ UNCHANGED <<static_events, events_prev, alert_stamps, files, wire>>

(* the control loop's cycle of GateNext with create_alerts also between    *)
(* the two assignments of clear()                                          *)
ThreadNext ==
  \/ StreakBelow(MaxGateStreak) /\ ClearBegin
  \/ ClearEnd
  \/ \E e \in GateIds, static \in BOOLEAN :
       /\ clear_pc = "idle"
       /\ last.op \in {"clear", "add"}
       /\ Len(events) < MaxLen
       /\ OnlyActive(e)
       /\ Add(e, static)
  \/ last.op \in {"clear", "add"} /\ CreateAlerts(GateTypes, ArgsA)

ThreadSpec == Init /\ [][ThreadNext]_vars

(* create_alerts(['softDisable'], args) for events whose softDisable entry  *)
(* comes from soft_disable_alert (overheat) and user_soft_disable_alert     *)
(* (doorOpen), with soft_disable_time on both sides of int(0.5 / DT_CTRL)   *)
SoftIds == {"overheat", "doorOpen"}

SoftTimes == {0} \cup 48..MaxSoftTime

SoftArgs(soft_disable_time) == <<ArgsA[1], ArgsA[2], ArgsA[3], soft_disable_time>>

SoftNext ==
  \/ \E e \in SoftIds : Len(events) < MaxLen /\ Add(e, FALSE)
  \/ StreakBelow(MaxStreak) /\ Clear
  \/ \E soft_disable_time \in SoftTimes :
       CreateAlerts(<<SOFT_DISABLE>>, SoftArgs(soft_disable_time))

SoftSpec == Init /\ [][SoftNext]_vars

(* Every operation that could touch the persistent list, in any            *)
(* interleaving over several cycles: add, sticky or not, clear,            *)
(* add_from_msg of the message in flight, create_alerts and to_msg.        *)
StickyNext ==
  \/ \E e \in EventIds, static \in BOOLEAN :
       Len(events) < MaxLen /\ Add(e, static)
  \/ StreakBelow(MaxStickyStreak) /\ Clear
  \/ Publish
  \/ wire # NoMsg /\ Len(events) + Len(wire.msg) <= MaxLen /\ Receive
  \/ CreateAlerts(GateTypes, ArgsA)

StickySpec == Init /\ [][StickyNext]_vars

(* Alert(..., duration, creation_delay=...) for any two times *)
Construct(duration, creation_delay) ==
  /\ last' = Call("Alert", <<duration, creation_delay>>,
                  Alert(tr(21), NoText, "normal", "small", LOWER, "none",
                        "none", duration, 0, creation_delay),
                  None)
  /\ UNCHANGED <<events, static_events, events_prev, alert_stamps, files, run,
               wire, clear_pc>>

(* the creation-delay test of create_alerts on the alert just constructed, *)
(* for an event with the given streak                                      *)
Gate(streak) ==
  /\ last' = Call("gate", <<last.ret, streak, last.arg[2]>>,
                  GatePasses(streak, last.ret), None)
  /\ UNCHANGED <<events, static_events, events_prev, alert_stamps, files, run,
               wire, clear_pc>>

ConstructNext ==
  \/ \E duration \in 0..MaxTime, creation_delay \in 0..MaxTime :
       last.op = "__init__" /\ Construct(duration, creation_delay)
  \/ \E streak \in 0..MaxCycles : last.op = "Alert" /\ Gate(streak)

ConstructSpec == Init /\ [][ConstructNext]_vars

(* What /data/log/can_missing.txt and /data/log/can_timeout.txt can hold:   *)
(* no file, a first line int(add, 0) parses (0x123), one it does not.      *)
FileContents == {<<"absent", 0>>, <<"line", 291>>, <<"bad", 0>>}

FileStates ==
  {[can_missing |-> a, can_timeout |-> b] : a, b \in FileContents}

(* another process writes or removes the files *)
WriteFiles(fs) ==
  /\ fs # files
  /\ files' = fs
  /\ UNCHANGED <<events, static_events, events_prev, alert_stamps, last, run,
               wire, clear_pc>>

(* canError asserted cycle after cycle and resolved, while the files come  *)
(* and go                                                                  *)
FileNext ==
  \/ StreakBelow(MaxGateStreak) /\ Clear
  \/ "canError" \notin Range(events) /\ Add("canError", FALSE)
  \/ CreateAlerts(GateTypes, ArgsA)
  \/ \E fs \in FileStates : WriteFiles(fs)

FileSpec == Init /\ [][FileNext]_vars

CreateAlertsReturned == last.op = "create_alerts" /\ last.err = None

(* Single-slot selection by a consumer of the resolved alerts: a scan in   *)
(* resolution order that replaces the incumbent only when the candidate    *)
(* compares greater.  The position of the selected alert, 0 for no alert.  *)
RECURSIVE select_from(_, _, _)
select_from(alerts, i, best) ==
  IF i > Len(alerts) THEN best
  ELSE select_from(alerts, i + 1,
                   IF Alert__gt__(alerts[i], alerts[best]) THEN i ELSE best)

Select(alerts) == IF alerts = <<>> THEN 0 ELSE select_from(alerts, 2, 1)

Pick(alerts) ==
  /\ last' = Call("select", <<alerts>>, Select(alerts), None)
  /\ UNCHANGED <<events, static_events, events_prev, alert_stamps, files, run,
               wire, clear_pc>>

(* warning alerts without creation delay, of priority LOW, HIGH, HIGH, MID *)
SelectIds ==
  {"laneChange", "driverDistracted", "speedTooHigh", "promptDriverDistracted"}

(* the events of one cycle asserted in any order, resolved under           *)
(* 'warning', one alert selected                                           *)
SelectNext ==
  \/ \E e \in SelectIds : Len(events) < MaxPick /\ Add(e, FALSE)
  \/ CreateAlerts(<<WARNING>>, ArgsA)
  \/ CreateAlertsReturned /\ Pick(last.ret)

SelectSpec == Init /\ [][SelectNext]_vars

----------------------------------------------------------------------------
(* What the claims are stated with *)

(* the result holds an alert resolved from event e under category et *)
HasAlert(ret, e, et) ==
  \E i \in 1..Len(ret) : ret[i].alert_type = AlertTypeName(e, et)

(* the creation delay of the alert EVENTS[e][et] stands for, in ms *)
DelayOf(e, et, callback_args) ==
  IF IsAlert(EVENTS_AT_IMPORT[e][et])
    THEN EVENTS_AT_IMPORT[e][et].creation_delay
    ELSE CallAlert(EVENTS_AT_IMPORT[e][et], callback_args, files).creation_delay

----------------------------------------------------------------------------
(* C1: with clear() at the start of every cycle, the alert of a catalog    *)
(* event that has been in active for n consecutive cycles, the current one *)
(* included, is in the result of create_alerts if and only if              *)
(* n * cycle_period >= its creation delay: it appears first at the         *)
(* smallest such n and in every later consecutive cycle.                   *)
C1_CreationDelayGate ==
  CreateAlertsReturned =>
    \A e \in GateIds :
      \A j \in 1..Len(last.arg[1]) :
        LET et == last.arg[1][j] IN
        (e \in Range(events) /\ et \in DOMAIN EVENTS_AT_IMPORT[e]) =>
          (HasAlert(last.ret, e, et)
             <=> run[e] * DT_CTRL >= DelayOf(e, et, last.arg[2]))

(* reverseGear's permanent alert (0.5 s) in the 50th consecutive cycle,    *)
(* the first in which it is returned                                       *)
C1_Witness ==
  /\ CreateAlertsReturned
  /\ run["reverseGear"] = 50
  /\ HasAlert(last.ret, "reverseGear", PERMANENT)
  /\ HasAlert(last.ret, "reverseGear", NO_ENTRY)

----------------------------------------------------------------------------
(* C2 as stated: calibrationIncomplete, asserted continuously, has its     *)
(* permanent alert in the result of create_alerts(['permanent']) exactly   *)
(* from cycle 30000 on (a creation delay of 300 s).                        *)
C2_CalibrationDelayed ==
  CreateAlertsReturned =>
    (HasAlert(last.ret, "calibrationIncomplete", PERMANENT)
       <=> run["calibrationIncomplete"] >= 30000)

(* C2 as amended: calibrationIncomplete's permanent alert has no creation  *)
(* delay and is in the result from the first cycle on; the 300 s delay is  *)
(* that of noGps's permanent alert, which is absent in every cycle before  *)
(* cycle 30000 and present from cycle 30000 on.                            *)
C2_CalibrationAtOnceNoGpsDelayed ==
  CreateAlertsReturned =>
    /\ DelayOf("calibrationIncomplete", PERMANENT, last.arg[2]) = 0
    /\ HasAlert(last.ret, "calibrationIncomplete", PERMANENT)
    /\ DelayOf("noGps", PERMANENT, last.arg[2]) = 300000
    /\ HasAlert(last.ret, "noGps", PERMANENT) <=> run["noGps"] >= 30000

(* cycle 30000 of the continuous assertion: both alerts are returned *)
C2_Witness ==
  /\ CreateAlertsReturned
  /\ run["noGps"] = 30000
  /\ run["calibrationIncomplete"] = 30000
  /\ HasAlert(last.ret, "noGps", PERMANENT)
  /\ HasAlert(last.ret, "calibrationIncomplete", PERMANENT)

----------------------------------------------------------------------------
(* C3: right after clear(), with no add() since, active equals persistent  *)
(* (same identifiers, same order); with persistent empty, active is empty. *)
C3_ClearYieldsPersistent ==
  last.op = "clear" =>
    /\ events = static_events
    /\ static_events = <<>> => events = <<>>

(* a clear() that kept the sticky reverseGear and dropped doorOpen, which  *)
(* was active in the cycle just ended                                      *)
C3_Witness ==
  /\ last.op = "clear"
  /\ static_events = <<"reverseGear">>
  /\ events = <<"reverseGear">>
  /\ events_prev["doorOpen"] = 1

----------------------------------------------------------------------------
(* C4: clear() sets the streak of every identifier of the catalog to its   *)
(* old streak + 1 if the identifier occurs at least once in the active     *)
(* list of the cycle just ended, and to 0 otherwise; several occurrences   *)
(* advance it by exactly 1.                                                *)
C4_ClearRecomputesStreak ==
  [][last'.op = "clear" =>
       /\ DOMAIN events_prev' = DOMAIN EVENTS_AT_IMPORT
       /\ \A k \in DOMAIN EVENTS_AT_IMPORT :
            events_prev'[k] =
              IF Count(events, k) >= 1 THEN events_prev[k] + 1 ELSE 0]_vars

(* after the third clear() of a run in which reverseGear came to be twice  *)
(* in the persistent list, hence twice in active                           *)
C4_Witness ==
  /\ last.op = "clear"
  /\ static_events = <<"reverseGear", "reverseGear">>
  /\ events_prev["reverseGear"] = 3

----------------------------------------------------------------------------
(* C5: an identifier absent from active for a whole cycle has streak 0     *)
(* after the clear() that ends the cycle, and on re-assertion an alert     *)
(* with a creation delay above one cycle period is not returned before the *)
(* identifier has again been asserted for the cycles the gate requires.    *)
C5_NotFiredBeforeFullRun ==
  CreateAlertsReturned =>
    \A e \in GateIds :
      \A j \in 1..Len(last.arg[1]) :
        LET et == last.arg[1][j] IN
        (/\ e \in Range(events)
         /\ et \in DOMAIN EVENTS_AT_IMPORT[e]
         /\ DelayOf(e, et, last.arg[2]) > DT_CTRL
         /\ run[e] * DT_CTRL < DelayOf(e, et, last.arg[2]))
          => ~HasAlert(last.ret, e, et)

C5_ContinuousAssertionOnly ==
  /\ []C5_NotFiredBeforeFullRun
  /\ [][last'.op = "clear" =>
          \A k \in DOMAIN EVENTS_AT_IMPORT :
            k \notin Range(events) => events_prev'[k] = 0]_vars

(* reverseGear re-asserted after a gap: its permanent alert was returned   *)
(* before (the catalog's record carries the stamp) and is not returned in  *)
(* the first cycle of the new run                                          *)
C5_Witness ==
  /\ CreateAlertsReturned
  /\ "reverseGear" \in Range(events)
  /\ run["reverseGear"] = 1
  /\ <<"reverseGear", PERMANENT>> \in DOMAIN alert_stamps
  /\ ~HasAlert(last.ret, "reverseGear", PERMANENT)

----------------------------------------------------------------------------
(* C6: an identifier of the persistent list (added once with static=True)  *)
(* is in active after every later clear(), with no further add(), and its  *)
(* streak grows by one at each of these clear() calls.                     *)
C6_StickyStaysActive ==
  [][last'.op = "clear" =>
       \A i \in 1..Len(static_events) :
         /\ static_events[i] \in Range(events')
         /\ events_prev'[static_events[i]] = events_prev[static_events[i]] + 1]_vars

(* five cycles after canError was added as sticky *)
C6_Witness ==
  /\ last.op = "clear"
  /\ static_events = <<"canError">>
  /\ events = <<"canError">>
  /\ events_prev["canError"] = 5

----------------------------------------------------------------------------
(* C7: in every reachable state every identifier of the persistent list is *)
(* in active, with at least as many occurrences.                           *)
C7_PersistentWithinActive ==
  \A i \in 1..Len(static_events) :
    Count(events, static_events[i]) >= Count(static_events, static_events[i])

(* a sticky doorOpen followed by an identifier received on the wire *)
C7_Witness ==
  /\ static_events = <<"doorOpen">>
  /\ events = <<"doorOpen", UnknownEvent>>

----------------------------------------------------------------------------
(* C8: the result of create_alerts holds exactly the pairs (occurrence of  *)
(* an event in active, requested category) that have a catalog entry and   *)
(* pass the creation-delay gate, ordered by the position of the event in   *)
(* active and then by the position of the category in the caller's list.   *)
C8_Pairs ==
  {p \in (1..Len(events)) \X (1..Len(last.arg[1])) :
     LET e == events[p[1]]
         et == last.arg[1][p[2]]
     IN  /\ et \in DOMAIN EVENTS_AT_IMPORT[e]
         /\ DT_CTRL * (events_prev[e] + 1) >= DelayOf(e, et, last.arg[2])}

C8_Before(p, q) == p[1] < q[1] \/ (p[1] = q[1] /\ p[2] < q[2])

C8_Rank(p) == Cardinality({q \in C8_Pairs : C8_Before(q, p)}) + 1

C8_ResultOrder ==
  CreateAlertsReturned =>
    /\ Len(last.ret) = Cardinality(C8_Pairs)
    /\ \A p \in C8_Pairs :
         /\ last.ret[C8_Rank(p)].alert_type =
              AlertTypeName(events[p[1]], last.arg[1][p[2]])
         /\ last.ret[C8_Rank(p)].event_type = last.arg[1][p[2]]

(* two events, the first with alerts under two of the requested categories *)
C8_Witness ==
  /\ CreateAlertsReturned
  /\ events = <<"doorOpen", "reverseGear">>
  /\ Len(last.ret) = 3
  /\ last.ret[1].alert_type = "doorOpen/noEntry"
  /\ last.ret[2].alert_type = "doorOpen/softDisable"
  /\ last.ret[3].alert_type = "reverseGear/noEntry"

----------------------------------------------------------------------------
(* C9: a second create_alerts call with the same categories and the same   *)
(* factory arguments, right after the first, returns the same alerts (or   *)
(* raises the same exception), and create_alerts leaves active, persistent *)
(* and streak unchanged.                                                   *)
C9_SecondCallAgrees ==
  last.op = "create_alerts" =>
    LET again == create_alerts(events, events_prev, alert_stamps, files,
                               last.arg[1], last.arg[2])
    IN  /\ again.err = last.err
        /\ again.err = None => again.ret = last.ret

C9_CreateAlertsIdempotent ==
  /\ []C9_SecondCallAgrees
  /\ [][last'.op = "create_alerts" =>
          UNCHANGED <<events, static_events, events_prev>>]_vars

(* a call that returned a catalog record, which it stamped, and an alert a *)
(* factory made                                                            *)
C9_Witness ==
  /\ CreateAlertsReturned
  /\ HasAlert(last.ret, "doorOpen", NO_ENTRY)
  /\ HasAlert(last.ret, "doorOpen", SOFT_DISABLE)
  /\ <<"doorOpen", NO_ENTRY>> \in DOMAIN alert_stamps

----------------------------------------------------------------------------
(* C10: no operation changes the catalog: every Alert stored in EVENTS has *)
(* the field values it had at import.                                      *)
C10_CatalogUnchanged == EVENTS = EVENTS_AT_IMPORT

----------------------------------------------------------------------------
(* C11: every alert of a create_alerts result is the alert of an active    *)
(* event under a requested category and carries alert_type =               *)
(* '<event name>/<category>' and event_type = category of that pair; the   *)
(* alerts earlier calls returned (the catalog's Alert objects written to   *)
(* so far) carry the stamp of their own pair after every later call.       *)
C11_ResultStamped ==
  CreateAlertsReturned =>
    \A i \in 1..Len(last.ret) :
      \E e \in Range(events) \cap DOMAIN EVENTS_AT_IMPORT :
        \E j \in 1..Len(last.arg[1]) :
          LET et == last.arg[1][j] IN
          /\ et \in DOMAIN EVENTS_AT_IMPORT[e]
          /\ last.ret[i].alert_type = AlertTypeName(e, et)
          /\ last.ret[i].event_type = et
          /\ last.ret[i] =
               Stamp(IF IsAlert(EVENTS_AT_IMPORT[e][et])
                       THEN EVENTS_AT_IMPORT[e][et]
                       ELSE CallAlert(EVENTS_AT_IMPORT[e][et], last.arg[2],
                                      files),
                     e, et)

C11_EarlierKeepStamp ==
  \A p \in DOMAIN alert_stamps :
    /\ EVENTS[p[1]][p[2]].alert_type = AlertTypeName(p[1], p[2])
    /\ EVENTS[p[1]][p[2]].event_type = p[2]

C11_AlertsStamped == C11_ResultStamped /\ C11_EarlierKeepStamp

(* reverseGear's two alerts returned by this call, while canError's        *)
(* noEntry alert, returned by a call many cycles earlier, is still stamped *)
C11_Witness ==
  /\ CreateAlertsReturned
  /\ events = <<"reverseGear">>
  /\ Len(last.ret) = 2
  /\ last.ret[1].alert_type = "reverseGear/permanent"
  /\ last.ret[2].event_type = NO_ENTRY
  /\ <<"canError", NO_ENTRY>> \in DOMAIN alert_stamps

----------------------------------------------------------------------------
(* C12 as stated: after add_from_msg(list), active is exactly the          *)
(* identifiers of the message, in message order, whatever it held before.  *)
C12_ActiveReplaced ==
  last.op = "add_from_msg" => events = last.arg[1]

(* C12 as amended: add_from_msg(list) appends the identifiers of the       *)
(* message to active, in message order: afterwards active is what it held  *)
(* before the call followed by the identifiers of the message, hence       *)
(* exactly the message's identifiers when it was empty before the call.    *)
C12_ActiveExtended ==
  [][last'.op = "add_from_msg" =>
       /\ events' = events \o last'.arg[1]
       /\ events = <<>> => events' = last'.arg[1]
       /\ UNCHANGED <<static_events, events_prev>>]_vars

(* a message of one identifier received while reverseGear was active *)
C12_Witness ==
  /\ last.op = "add_from_msg"
  /\ last.arg[1] = <<UnknownEvent>>
  /\ events = <<"reverseGear", UnknownEvent>>

----------------------------------------------------------------------------
(* C13 as stated: add_from_msg(to_msg()) leaves an active list equal to    *)
(* the one that was encoded: same identifiers, order and multiplicity.     *)
C13_RoundTripRestores ==
  (last.op = "add_from_msg" /\ last.arg[1] = Names(wire.msg)) =>
    events = wire.of

(* C13 as amended: add_from_msg(to_msg()) appends to the receiving active  *)
(* list the identifiers that were encoded, in the same order and           *)
(* multiplicity; it reconstructs the encoded list exactly when the         *)
(* receiving active list is empty before the call.                         *)
C13_RoundTripAppends ==
  [][(last'.op = "add_from_msg" /\ last'.arg[1] = Names(wire.msg)) =>
       /\ events' = events \o wire.of
       /\ events = <<>> => events' = wire.of]_vars

(* a list of two identifiers, published, received after a clear() that     *)
(* left active empty                                                       *)
C13_Witness ==
  /\ last.op = "add_from_msg"
  /\ wire.of = <<"doorOpen", "joystickDebug">>
  /\ last.arg[1] = Names(wire.msg)
  /\ events = wire.of

----------------------------------------------------------------------------
(* the categories some catalog entry uses *)
CatalogTypes == UNION {DOMAIN EVENTS_AT_IMPORT[e] : e \in DOMAIN EVENTS_AT_IMPORT}

InCatalog(e) == e \in DOMAIN EVENTS_AT_IMPORT

(* C14: to_msg returns one entry per element of active, in active order,   *)
(* each with the identifier and with a flag exactly for the categories of  *)
(* the identifier's catalog entry (none for an empty entry), and changes   *)
(* no state of the engine.                                                 *)
C14_EntryPerActive ==
  last.op = "to_msg" =>
    /\ Len(last.ret) = Len(events)
    /\ \A i \in 1..Len(events) :
         /\ last.ret[i].name = events[i]
         /\ last.ret[i].flags \subseteq CatalogTypes
         /\ \A et \in CatalogTypes :
              et \in last.ret[i].flags
                <=> (InCatalog(events[i])
                       /\ et \in DOMAIN EVENTS_AT_IMPORT[events[i]])

C14_ToMsg ==
  /\ []C14_EntryPerActive
  /\ [][last'.op = "to_msg" =>
          UNCHANGED <<events, static_events, events_prev, alert_stamps>>]_vars

(* stockFcw, whose catalog entry is empty, before reverseGear *)
C14_Witness ==
  /\ last.op = "to_msg"
  /\ events = <<"stockFcw", "reverseGear">>
  /\ last.ret[1] = [name |-> "stockFcw", flags |-> {}]
  /\ last.ret[2] = [name |-> "reverseGear", flags |-> {PERMANENT, NO_ENTRY}]

----------------------------------------------------------------------------
(* C15: add_from_msg of a list with an identifier that is no key of the    *)
(* catalog does not fail and keeps the identifier in active at its         *)
(* position; to_msg emits it with no flag, any() finds no category on it,  *)
(* and clear() completes without error.                                    *)
C15_UnknownKept ==
  /\ last.op = "add_from_msg" =>
       /\ last.err = None
       /\ Len(events) >= Len(last.arg[1])
       /\ \A i \in 1..Len(last.arg[1]) :
            events[Len(events) - Len(last.arg[1]) + i] = last.arg[1][i]
  /\ last.op = "to_msg" =>
       /\ last.err = None
       /\ \A i \in 1..Len(events) :
            ~InCatalog(events[i]) =>
              last.ret[i] = [name |-> events[i], flags |-> {}]
  /\ last.op = "any" =>
       /\ last.err = None
       /\ last.ret <=> \E i \in 1..Len(events) :
                         /\ InCatalog(events[i])
                         /\ last.arg[1] \in DOMAIN EVENTS_AT_IMPORT[events[i]]

C15_UnknownTolerated ==
  /\ []C15_UnknownKept
  /\ [][(last'.op = "clear" /\ \E i \in 1..Len(events) : ~InCatalog(events[i]))
          => /\ last'.err = None
             /\ events' = static_events
             /\ DOMAIN events_prev' = DOMAIN EVENTS_AT_IMPORT]_vars

(* the unknown identifier received after reverseGear was added, and        *)
(* emitted by to_msg without a flag                                        *)
C15_Witness ==
  /\ last.op = "to_msg"
  /\ events = <<"reverseGear", UnknownEvent>>
  /\ last.ret[2] = [name |-> UnknownEvent, flags |-> {}]

----------------------------------------------------------------------------
(* C16: create_alerts skips, without raising, every (active identifier,    *)
(* requested category) pair without a catalog entry, an identifier that is *)
(* no key of the catalog included, and returns the alerts of the other     *)
(* active identifiers.                                                     *)
C16_UnknownSkipped ==
  last.op = "create_alerts" =>
    LET others == create_alerts(SelectSeq(events, InCatalog), events_prev,
                                alert_stamps, files, last.arg[1], last.arg[2])
    IN  /\ last.err # "KeyError"
        /\ last.err = others.err
        /\ last.err = None => last.ret = others.ret

----------------------------------------------------------------------------
(* C17: a category no catalog entry uses, in the list given to             *)
(* create_alerts, raises no error and contributes no alert: the call       *)
(* returns (or raises) what it does without that category in the list.     *)
C17_UnknownTypeNoOp ==
  last.op = "create_alerts" =>
    LET Used(et) == et \in CatalogTypes
        without == create_alerts(events, events_prev, alert_stamps, files,
                                 SelectSeq(last.arg[1], Used), last.arg[2])
    IN  /\ last.err = without.err
        /\ last.err = None =>
             /\ last.ret = without.ret
             /\ \A i \in 1..Len(last.ret) : Used(last.ret[i].event_type)

(* doorOpen's two alerts, returned around the unknown category *)
C17_Witness ==
  /\ CreateAlertsReturned
  /\ last.arg[1] = <<NO_ENTRY, "unknownType", SOFT_DISABLE>>
  /\ events = <<"doorOpen">>
  /\ Len(last.ret) = 2
  /\ last.ret[1].event_type = NO_ENTRY
  /\ last.ret[2].event_type = SOFT_DISABLE

----------------------------------------------------------------------------
(* C18: any(category) is true if and only if an identifier in active has a *)
(* catalog entry under the category, whatever its streak and the alert's   *)
(* creation delay, and changes no state.                                   *)
C18_AnyResult ==
  last.op = "any" =>
    (last.ret <=> \E i \in 1..Len(events) :
                    /\ InCatalog(events[i])
                    /\ last.arg[1] \in DOMAIN EVENTS_AT_IMPORT[events[i]])

C18_AnyIgnoresDelay ==
  /\ []C18_AnyResult
  /\ [][last'.op = "any" =>
          UNCHANGED <<events, static_events, events_prev, alert_stamps>>]_vars

(* any('permanent') is true in reverseGear's first cycle, in which         *)
(* create_alerts(['permanent']) returns nothing (0.5 s creation delay)     *)
C18_Witness ==
  /\ last.op = "any"
  /\ last.arg[1] = PERMANENT
  /\ last.ret = TRUE
  /\ events = <<"reverseGear">>
  /\ events_prev["reverseGear"] = 0
  /\ create_alerts(events, events_prev, alert_stamps, files, <<PERMANENT>>,
                   ArgsA).ret = <<>>

----------------------------------------------------------------------------
(* C19: when a factory called by create_alerts raises, create_alerts       *)
(* raises the same exception and returns nothing, neither a default alert  *)
(* nor the alerts gathered before, and active, persistent and streak are   *)
(* as before the call.                                                     *)
C19_FactoryErrorRaised ==
  last.op = "create_alerts" =>
    /\ last.err # None => last.ret = None
    /\ (last.arg[2] = ArgsB /\ "joystickDebug" \in Range(events))
         => last.err = "ValueError"

C19_FactoryErrorPropagates ==
  /\ []C19_FactoryErrorRaised
  /\ [][(last'.op = "create_alerts" /\ last'.err # None) =>
          UNCHANGED <<events, static_events, events_prev>>]_vars

(* joystick_alert raised after doorOpen's noEntry alert had been gathered  *)
(* (the catalog's record carries its stamp)                                *)
C19_Witness ==
  /\ last.op = "create_alerts"
  /\ last.err = "ValueError"
  /\ last.ret = None
  /\ events = <<"doorOpen", "joystickDebug">>
  /\ <<"doorOpen", NO_ENTRY>> \in DOMAIN alert_stamps

----------------------------------------------------------------------------
(* C20: the selection built on Alert.__gt__ is a stable maximum: the alert *)
(* selected has the highest priority among the resolved alerts and is the  *)
(* first of that priority in resolution order; of two warning alerts of    *)
(* priority MID and HIGH it is the HIGH one in either assertion order.     *)
C20_Priorities == [i \in 1..Len(last.arg[1]) |-> last.arg[1][i].priority]

C20_StableMaximum ==
  (last.op = "select" /\ last.arg[1] # <<>>) =>
    /\ last.ret \in 1..Len(last.arg[1])
    /\ \A j \in 1..Len(last.arg[1]) :
         /\ C20_Priorities[j] <= C20_Priorities[last.ret]
         /\ j < last.ret => C20_Priorities[j] < C20_Priorities[last.ret]
    /\ C20_Priorities = <<MID, HIGH>> => last.ret = 2
    /\ C20_Priorities = <<HIGH, MID>> => last.ret = 1

(* priorities [LOW, HIGH, HIGH, MID] in resolution order: the first HIGH *)
C20_Witness ==
  /\ last.op = "select"
  /\ C20_Priorities = <<LOW, HIGH, HIGH, MID>>
  /\ last.ret = 2
  /\ last.arg[1][2].alert_type = "speedTooHigh/warning"

----------------------------------------------------------------------------
(* C21: the outcome of create_alerts is decided by active, streak, the     *)
(* catalog and the factory arguments: with any other contents of the files *)
(* the same call returns the same alerts (or raises the same exception).   *)
C21_DependsOnArgumentsOnly ==
  last.op = "create_alerts" =>
    \A fs \in FileStates :
      LET other == create_alerts(events, events_prev, alert_stamps, fs,
                                 last.arg[1], last.arg[2])
      IN  /\ other.err = last.err
          /\ last.err = None => other.ret = last.ret

----------------------------------------------------------------------------
(* C22: a > b holds exactly when a's priority is strictly higher than b's, *)
(* with HIGHEST > HIGH > MID > LOW > LOWER > LOWEST: the comparison is     *)
(* irreflexive and transitive, and of two alerts of equal priority neither *)
(* is greater, whatever their other fields.                                *)
C22_StrictPriorityOrder ==
  last.op = "__gt__" =>
    LET a == last.arg[1]
        b == last.arg[2]
    IN  /\ last.ret <=> a.priority > b.priority
        /\ a.priority = b.priority => (~last.ret /\ ~Alert__gt__(b, a))
        /\ ~Alert__gt__(a, a)
        /\ \A c \in FixedAlerts :
             (last.ret /\ Alert__gt__(b, c)) => Alert__gt__(a, c)
        /\ {a.priority, b.priority} \subseteq LOWEST..HIGHEST
        /\ HIGHEST > HIGH /\ HIGH > MID /\ MID > LOW /\ LOW > LOWER
        /\ LOWER > LOWEST

(* two alerts of equal priority that differ in text, size and duration *)
C22_Witness ==
  /\ last.op = "__gt__"
  /\ last.arg[1].priority = last.arg[2].priority
  /\ last.arg[1].alert_text_1 # last.arg[2].alert_text_1
  /\ last.arg[1].alert_size # last.arg[2].alert_size
  /\ last.arg[1].duration > last.arg[2].duration
  /\ last.ret = FALSE

----------------------------------------------------------------------------
(* C23 as stated: an alert constructed with duration D and creation delay  *)
(* C stores floor(D / cycle_period) and floor(C / cycle_period), and the   *)
(* creation-delay gate compares cycle counts.                              *)
C23_BothStoredAsCycles ==
  /\ last.op = "Alert" =>
       /\ last.ret.duration = last.arg[1] \div DT_CTRL
       /\ last.ret.creation_delay = last.arg[2] \div DT_CTRL
  /\ last.op = "gate" =>
       (last.ret <=> last.arg[2] + 1 >= last.arg[3] \div DT_CTRL)

(* C23 as amended: the duration is stored as floor(D / cycle_period)       *)
(* cycles, the creation delay as the time C itself; the gate compares      *)
(* times, (streak + 1) * cycle_period >= C, so it passes from cycle        *)
(* ceil(C / cycle_period) on.                                              *)
C23_DelayKeptAsTime ==
  /\ last.op = "Alert" =>
       /\ last.ret.duration = last.arg[1] \div DT_CTRL
       /\ last.ret.creation_delay = last.arg[2]
  /\ last.op = "gate" =>
       (last.ret <=>
          last.arg[2] + 1 >= (last.arg[3] + DT_CTRL - 1) \div DT_CTRL)

(* a delay of one and a half cycles is not passed in the first cycle,      *)
(* which a floor count of 1 cycle would pass                               *)
C23_Witness ==
  /\ last.op = "gate"
  /\ last.arg[3] = 15
  /\ last.arg[2] = 0
  /\ last.arg[1].creation_delay = 15
  /\ last.arg[1].duration = 1
  /\ last.ret = FALSE

----------------------------------------------------------------------------
(* C24 as stated: clear() updates streak and active as a unit, so a        *)
(* create_alerts interleaved with the steps of clear() never returns an    *)
(* alert a cycle earlier than the gate of a non-interleaved call allows:   *)
(* an alert is returned only after its event's run has reached the delay.  *)
C24_NeverACycleEarly ==
  CreateAlertsReturned =>
    \A e \in GateIds :
      \A j \in 1..Len(last.arg[1]) :
        LET et == last.arg[1][j] IN
        (e \in Range(events) /\ et \in DOMAIN EVENTS_AT_IMPORT[e]) =>
          (HasAlert(last.ret, e, et)
             => run[e] * DT_CTRL >= DelayOf(e, et, last.arg[2]))

(* C24 as amended: clear() assigns the streaks and then the active list,   *)
(* two steps with no lock.  A create_alerts that runs outside the two      *)
(* steps gates on the run of the current cycle; one that runs between them *)
(* sees the streaks advanced and the previous cycle's list, and gates one  *)
(* cycle ahead.                                                            *)
C24_InterleavedGatesAhead ==
  CreateAlertsReturned =>
    \A e \in GateIds :
      \A j \in 1..Len(last.arg[1]) :
        LET et == last.arg[1][j]
            ahead == IF clear_pc = "events" THEN 1 ELSE 0
        IN
        (e \in Range(events) /\ et \in DOMAIN EVENTS_AT_IMPORT[e]) =>
          (HasAlert(last.ret, e, et)
             <=> (run[e] + ahead) * DT_CTRL >= DelayOf(e, et, last.arg[2]))

(* reverseGear's permanent alert (0.5 s) returned between the two steps of *)
(* the clear() that ends the 49th cycle of its run                         *)
C24_Witness ==
  /\ CreateAlertsReturned
  /\ clear_pc = "events"
  /\ run["reverseGear"] = 49
  /\ events_prev["reverseGear"] = 49
  /\ HasAlert(last.ret, "reverseGear", PERMANENT)

----------------------------------------------------------------------------
(* C25: for an event whose softDisable entry is built by                   *)
(* soft_disable_alert or user_soft_disable_alert,                          *)
(* create_alerts(['softDisable'], args) returns the immediate-disable      *)
(* presentation (priority HIGHEST, status critical) if and only if         *)
(* soft_disable_time < floor(0.5 s / cycle_period), otherwise the          *)
(* soft-disable presentation (priority MID, status userPrompt); either is  *)
(* stamped with the category softDisable.                                  *)
C25_SoftDisableThreshold ==
  CreateAlertsReturned =>
    LET soft_disable_time == last.arg[2][4]
        immediate == soft_disable_time < 500 \div DT_CTRL
    IN
    /\ \A e \in SoftIds :
         e \in Range(events) => HasAlert(last.ret, e, SOFT_DISABLE)
    /\ \A i \in 1..Len(last.ret) :
         LET alert == last.ret[i] IN
         /\ alert.event_type = SOFT_DISABLE
         /\ immediate <=>
              (alert.priority = HIGHEST /\ alert.alert_status = "critical")
         /\ ~immediate <=>
              (alert.priority = MID /\ alert.alert_status = "userPrompt")

(* at exactly half a second both factories give the soft-disable           *)
(* presentation                                                            *)
C25_Witness ==
  /\ CreateAlertsReturned
  /\ last.arg[2][4] = 50
  /\ events = <<"doorOpen", "overheat">>
  /\ Len(last.ret) = 2
  /\ last.ret[1].alert_text_1 = tr(3)
  /\ last.ret[2].alert_text_1 = tr(2)
  /\ last.ret[1].priority = MID
  /\ last.ret[2].priority = MID

----------------------------------------------------------------------------
(* C26: no operation removes an identifier from the persistent list: over  *)
(* any sequence of add, clear, add_from_msg, create_alerts and to_msg it   *)
(* changes only by add(e, static=True), which appends e, duplicates        *)
(* included; clear() makes active the whole persistent list, so a sticky   *)
(* identifier is in active after every later clear(), and re-adding it as  *)
(* sticky every cycle makes active after clear() one element longer each   *)
(* cycle.                                                                  *)
C26_PersistentOnlyGrows ==
  [][LET sticky == last'.op = "add" /\ last'.arg[2] = TRUE IN
     /\ sticky => static_events' = Append(static_events, last'.arg[1])
     /\ ~sticky => static_events' = static_events
     /\ last'.op = "clear" =>
          /\ Len(events') = Len(static_events)
          /\ \A i \in 1..Len(static_events) :
               Count(events', static_events[i])
                 = Count(static_events, static_events[i])]_vars

(* reverseGear added as sticky in two cycles running: after the second     *)
(* clear() it is twice in active, and a message was published and taken in *)
(* on the way                                                              *)
C26_Witness ==
  /\ last.op = "clear"
  /\ static_events = <<"reverseGear", "reverseGear">>
  /\ events = <<"reverseGear", "reverseGear">>
  /\ events_prev["reverseGear"] = 2
  /\ wire # NoMsg

----------------------------------------------------------------------------
(* C27: add(e, static=False) and add_from_msg change active only, by       *)
(* appending at its end; the persistent list and the streaks are           *)
(* unchanged, also right after clear() (active is a copy of the persistent *)
(* list).  add(e, static=True) changes active and the persistent list      *)
(* only.  Only clear() changes a streak, and it advances the streak of     *)
(* every catalog identifier in active, received by add_from_msg or added   *)
(* locally.                                                                *)
C27_AssertionFrame ==
  [][/\ (last'.op = "add" /\ last'.arg[2] = FALSE) =>
          /\ events' = Append(events, last'.arg[1])
          /\ static_events' = static_events
          /\ events_prev' = events_prev
          /\ alert_stamps' = alert_stamps
     /\ last'.op = "add_from_msg" =>
          /\ events' = events \o last'.arg[1]
          /\ static_events' = static_events
          /\ events_prev' = events_prev
          /\ alert_stamps' = alert_stamps
     /\ (last'.op = "add" /\ last'.arg[2] = TRUE) =>
          /\ events' = Append(events, last'.arg[1])
          /\ events_prev' = events_prev
          /\ alert_stamps' = alert_stamps
     /\ events_prev' # events_prev => last'.op = "clear"
     /\ last'.op = "clear" =>
          \A i \in 1..Len(events) :
            events[i] \in DOMAIN EVENTS_AT_IMPORT =>
              events_prev'[events[i]] = events_prev[events[i]] + 1]_vars

(* stockFcw, which only add_from_msg brings in, has its streak advanced by *)
(* clear(); the add(doorOpen) that follows the clear() left the persistent *)
(* list empty                                                              *)
C27_Witness ==
  /\ last.op = "add"
  /\ last.arg = <<"doorOpen", FALSE>>
  /\ events = <<"doorOpen">>
  /\ static_events = <<>>
  /\ events_prev["stockFcw"] = 1
  /\ events_prev["doorOpen"] = 0

====
